---- MODULE Spec2Model ----
(***************************************************************************)
(* Model of aws/resource_aws_launch_configuration.go: the aws_launch_      *)
(* configuration resource (schema, Create / Read / Delete callbacks and    *)
(* the block-device conversion helpers).                                   *)
(*                                                                         *)
(* Conventions.  A Go pointer or optional map key is a sequence of length  *)
(* 0 (nil / absent) or 1 (the value).  A Go string that is built by        *)
(* concatenation (resource names, error messages) is a sequence of tokens, *)
(* so the empty string is << >>.  Device names, volume types and virtual   *)
(* names are plain strings, "" being the empty string.                     *)
(***************************************************************************)
EXTENDS Integers, Sequences, FiniteSets, TLC

VARIABLES
    pc,          \* position of the host/provider: idle, creating, readback, done
    op,          \* callback in progress or last finished: none, create, read, delete
    id,          \* d.Id(): token sequence, << >> when unset
    result,      \* outcome of the callback: none, ok, error, panic
    cfg,         \* configuration handed to Create
    lcName,      \* name put into the creation request
    request,     \* BlockDeviceMappings of the creation request
    lastErr,     \* error of the latest creation request, NoErr if it succeeded
    returned,    \* the error the callback returned, NoErr for nil
    lastResp,    \* response of the latest describe request of the callback
    readId,      \* the name asked for in the latest describe request
    lookup1,     \* outcome of Create's first image lookup (line 432)
    written,     \* attributes set through d.Set during the callback
    nLookup,     \* image lookups (fetchRootDeviceName) issued in the callback
    nCreate,     \* CreateLaunchConfiguration requests issued in the callback
    nDescribe,   \* DescribeLaunchConfigurations requests issued in the callback
    nDelete,     \* DeleteLaunchConfiguration requests issued in the callback
    bd,          \* block-device conversion under study (input, lookup, outputs)
    plan         \* attribute paths the host's plan changes

vars == << pc, op, id, result, returned, cfg, lcName, request, lastErr, lastResp,
           readId, lookup1, written, nLookup, nCreate, nDescribe, nDelete, bd, plan >>

lifecycleVars == << pc, op, id, result, returned, cfg, lcName, request, lastErr,
                    lastResp, readId, lookup1, written, nLookup, nCreate, nDescribe,
                    nDelete >>

----------------------------------------------------------------------------
(* Bounds of the model *)

MaxCreateAttempts == 3   \* creation requests that fit in the 90 s window
MaxReadAttempts == 3     \* read-backs that fit in the 30 s window
MaxEbs == 2              \* ebs_block_device entries of a studied configuration
MaxEph == 1              \* ephemeral_block_device entries of a studied configuration
MaxReturned == 2         \* block-device mappings of a studied describe response
MaxBdm == 2              \* block_device_mapping entries of a studied configuration
MaxPlan == 2             \* attribute paths changed by one plan

----------------------------------------------------------------------------
(* Optional values and maps *)

Nil == << >>
Ptr(v) == << v >>
IsNil(p) == p = << >>
Deref(p) == p[1]

EmptyMap == [k \in {} |-> 0]
Put(cond, k, v) == IF cond THEN [x \in {k} |-> v] ELSE EmptyMap

\* strings.Contains on token sequences
Contains(s, sub) ==
    \E i \in 1..(Len(s) + 1) :
        /\ i + Len(sub) - 1 <= Len(s)
        /\ SubSeq(s, i, i + Len(sub) - 1) = sub

----------------------------------------------------------------------------
(* fetchRootDeviceName: the image lookup.  It yields an error, no name     *)
(* (nil, nil) or the image's root-device name.                             *)

RootName == "/dev/sda1"
OtherName == "/dev/sdb"
ThirdName == "/dev/sdc"

LkErr == [err |-> TRUE, dn |-> Nil]
LkNone == [err |-> FALSE, dn |-> Nil]
LkName(n) == [err |-> FALSE, dn |-> Ptr(n)]

fetchRootDeviceName == { LkErr, LkNone, LkName(RootName) }

\* lines 436-440 and 694-698: a nil name becomes the blank string
Blank(lk) == IF IsNil(lk.dn) THEN "" ELSE Deref(lk.dn)

----------------------------------------------------------------------------
(* Outbound block-device descriptors *)

Mapping(dn, vn, ebs) == [DeviceName |-> dn, VirtualName |-> vn, Ebs |-> ebs, NoDevice |-> Nil]

EbsOfEbsBlockDevice_SendsZero(b) ==
    [ DeleteOnTermination |-> Ptr(b.delete_on_termination),
      SnapshotId |-> IF b.snapshot_id # "" THEN Ptr(b.snapshot_id) ELSE Nil,
      Encrypted |-> IF b.encrypted THEN Ptr(TRUE) ELSE Nil,
      VolumeSize |-> Ptr(b.volume_size),
      VolumeType |-> IF b.volume_type # "" THEN Ptr(b.volume_type) ELSE Nil,
      Iops |-> IF b.iops >= 0 THEN Ptr(b.iops) ELSE Nil ]

\* lines 447-469: the Ebs descriptor of one ebs_block_device entry
EbsOfEbsBlockDevice(b) ==
    [ DeleteOnTermination |-> Ptr(b.delete_on_termination),
      SnapshotId |-> IF b.snapshot_id # "" THEN Ptr(b.snapshot_id) ELSE Nil,
      Encrypted |-> IF b.encrypted THEN Ptr(TRUE) ELSE Nil,
      VolumeSize |-> IF b.volume_size # 0 THEN Ptr(b.volume_size) ELSE Nil,
      VolumeType |-> IF b.volume_type # "" THEN Ptr(b.volume_type) ELSE Nil,
      Iops |-> IF b.iops > 0 THEN Ptr(b.iops) ELSE Nil ]

\* lines 497-511: the Ebs descriptor of the root_block_device entry
EbsOfRootBlockDevice(b) ==
    [ DeleteOnTermination |-> Ptr(b.delete_on_termination),
      SnapshotId |-> Nil,
      Encrypted |-> Nil,
      VolumeSize |-> IF b.volume_size # 0 THEN Ptr(b.volume_size) ELSE Nil,
      VolumeType |-> IF b.volume_type # "" THEN Ptr(b.volume_type) ELSE Nil,
      Iops |-> IF b.iops > 0 THEN Ptr(b.iops) ELSE Nil ]

\* lines 772-803: in is the 'ebs' list of a block_device_mapping entry
expandAutoscalingEbs(in) ==
    IF Len(in) = 0
    THEN Nil
    ELSE LET m == in[1]
         IN Ptr([ DeleteOnTermination |-> Ptr(m.delete_on_termination),
                  SnapshotId |-> IF m.snapshot_id # "" THEN Ptr(m.snapshot_id) ELSE Nil,
                  Encrypted |-> IF m.encrypted THEN Ptr(TRUE) ELSE Nil,
                  VolumeSize |-> IF m.volume_size # 0 THEN Ptr(m.volume_size) ELSE Nil,
                  VolumeType |-> IF m.volume_type # "" THEN Ptr(m.volume_type) ELSE Nil,
                  Iops |-> IF m.iops > 0 THEN Ptr(m.iops) ELSE Nil ])

RECURSIVE EbsLoop_NoRootCheck(_, _, _, _)
EbsLoop_NoRootCheck(vL, i, rootDeviceName, acc) ==
    IF i > Len(vL)
    THEN [rejected |-> FALSE, out |-> acc]
    ELSE EbsLoop_NoRootCheck(vL, i + 1, rootDeviceName,
                             Append(acc, Mapping(Ptr(vL[i].device_name), Nil,
                                                 Ptr(EbsOfEbsBlockDevice(vL[i])))))

\* lines 442-480: the loop over ebs_block_device; stops at an entry named
\* like the root device
RECURSIVE EbsLoop(_, _, _, _)
EbsLoop(vL, i, rootDeviceName, acc) ==
    IF i > Len(vL)
    THEN [rejected |-> FALSE, out |-> acc]
    ELSE IF vL[i].device_name = rootDeviceName
         THEN [rejected |-> TRUE, out |-> acc]
         ELSE EbsLoop(vL, i + 1, rootDeviceName,
                      Append(acc, Mapping(Ptr(vL[i].device_name), Nil,
                                          Ptr(EbsOfEbsBlockDevice(vL[i])))))

\* lines 482-491: the loop over ephemeral_block_device
EphemeralLoop(vL) ==
    [i \in 1..Len(vL) |->
        Mapping(Ptr(vL[i].device_name), Ptr(vL[i].virtual_name), Nil)]

\* lines 428-532: the legacy branch of Create.  lk1 is the outcome of the
\* lookup of line 432, lk2 of the lookup of line 513 (issued only when
\* root_block_device is set).
LegacyBlockDevices(c, lk1, lk2) ==
    IF lk1.err
    THEN [status |-> "lookup_error", out |-> << >>, lookups |-> 1]
    ELSE
      LET e == EbsLoop(c.ebs_block_device, 1, Blank(lk1), << >>)
          withEph == e.out \o EphemeralLoop(c.ephemeral_block_device)
      IN IF e.rejected
         THEN [status |-> "root_as_ebs", out |-> << >>, lookups |-> 1]
         ELSE IF Len(c.root_block_device) = 0
         THEN [status |-> "ok", out |-> withEph, lookups |-> 1]
         ELSE IF lk2.err
         THEN [status |-> "lookup_error", out |-> << >>, lookups |-> 2]
         ELSE IF IsNil(lk2.dn)
         THEN [status |-> "no_root_name", out |-> << >>, lookups |-> 2]
         ELSE [status |-> "ok",
               out |-> Append(withEph,
                              Mapping(lk2.dn, Nil,
                                      Ptr(EbsOfRootBlockDevice(c.root_block_device[1])))),
               lookups |-> 2]

\* lines 744-767: the body of the loop for entry m, target being out[i].  A
\* schema map holds every key of its schema, so each "ok" test passes and the
\* store of line 757 is always reached; a store through a nil out[i] panics.
\* The call of line 750 is made before its result is stored.
ExpandEntry(target, m, lk) ==
    IF IsNil(target)
    THEN [status |-> "panic", entry |-> Nil,
          lookups |-> IF m.is_root_device THEN 1 ELSE 0]
    ELSE IF m.is_root_device /\ lk.err
    THEN [status |-> "err", entry |-> Nil, lookups |-> 1]
    ELSE [status |-> "ok",
          entry |-> Ptr([ DeviceName |-> Ptr(m.device_name),
                          Ebs |-> expandAutoscalingEbs(m.ebs),
                          NoDevice |-> Ptr(m.no_device),
                          VirtualName |-> Ptr(m.virtual_name) ]),
          lookups |-> IF m.is_root_device THEN 1 ELSE 0]

\* lines 743-768: the loop over the block_device_mapping entries
RECURSIVE ExpandLoop(_, _, _, _, _)
ExpandLoop(in, i, lk, out, n) ==
    IF i > Len(in)
    THEN [status |-> "ok", out |-> out, lookups |-> n]
    ELSE LET e == ExpandEntry(out[i], in[i], lk)
         IN IF e.status # "ok"
            THEN [status |-> e.status, out |-> << >>, lookups |-> n + e.lookups]
            ELSE ExpandLoop(in, i + 1, lk, [out EXCEPT ![i] = e.entry], n + e.lookups)

\* lines 737-770.  Line 742 makes out a slice of len(in) nil pointers.
expandAutoscalingBlockDeviceMappings(in, lk) ==
    IF Len(in) = 0
    THEN [status |-> "ok", out |-> << >>, lookups |-> 0]
    ELSE ExpandLoop(in, 1, lk, [i \in 1..Len(in) |-> Nil], 0)

----------------------------------------------------------------------------
(* Reading block devices back *)

CommonFields_DropsType(bdm) ==
    LET hasEbs == ~IsNil(bdm.Ebs)
        e == Deref(bdm.Ebs)
    IN Put(hasEbs /\ ~IsNil(e.DeleteOnTermination), "delete_on_termination",
           Deref(e.DeleteOnTermination))
       @@ Put(hasEbs /\ ~IsNil(e.VolumeSize), "volume_size", Deref(e.VolumeSize))
       @@ Put(hasEbs /\ ~IsNil(e.Iops), "iops", Deref(e.Iops))

\* lines 700-712: the fields copied for every mapping
CommonFields(bdm) ==
    LET hasEbs == ~IsNil(bdm.Ebs)
        e == Deref(bdm.Ebs)
    IN Put(hasEbs /\ ~IsNil(e.DeleteOnTermination), "delete_on_termination",
           Deref(e.DeleteOnTermination))
       @@ Put(hasEbs /\ ~IsNil(e.VolumeSize), "volume_size", Deref(e.VolumeSize))
       @@ Put(hasEbs /\ ~IsNil(e.VolumeType), "volume_type", Deref(e.VolumeType))
       @@ Put(hasEbs /\ ~IsNil(e.Iops), "iops", Deref(e.Iops))

IsRootMapping_EbsOnly(bdm, rootDeviceName) ==
    /\ ~IsNil(bdm.DeviceName) /\ Deref(bdm.DeviceName) = rootDeviceName
    /\ IsNil(bdm.VirtualName)

\* line 714
IsRootMapping(bdm, rootDeviceName) ==
    ~IsNil(bdm.DeviceName) /\ Deref(bdm.DeviceName) = rootDeviceName

\* lines 717-731: the fields added for a mapping that is not the root
NonRootFields(bdm) ==
    LET hasEbs == ~IsNil(bdm.Ebs)
        e == Deref(bdm.Ebs)
    IN CommonFields(bdm)
       @@ Put(hasEbs /\ ~IsNil(e.Encrypted), "encrypted", Deref(e.Encrypted))
       @@ Put(~IsNil(bdm.DeviceName), "device_name", Deref(bdm.DeviceName))
       @@ Put(~IsNil(bdm.VirtualName), "virtual_name", Deref(bdm.VirtualName))
       @@ Put(IsNil(bdm.VirtualName) /\ hasEbs /\ ~IsNil(e.SnapshotId), "snapshot_id",
              Deref(e.SnapshotId))

\* lines 699-733: the loop over lc.BlockDeviceMappings
RECURSIVE ReadLoop(_, _, _, _)
ReadLoop(bdms, i, rootDeviceName, acc) ==
    IF i > Len(bdms)
    THEN acc
    ELSE LET bdm == bdms[i]
         IN ReadLoop(bdms, i + 1, rootDeviceName,
                IF IsRootMapping(bdm, rootDeviceName)
                THEN [acc EXCEPT !.root = Ptr(CommonFields(bdm))]
                ELSE IF ~IsNil(bdm.VirtualName)
                THEN [acc EXCEPT !.ephemeral = Append(@, NonRootFields(bdm))]
                ELSE [acc EXCEPT !.ebs = Append(@, NonRootFields(bdm))])

\* lines 681-735.  isNil: the function returned a nil map (no mappings).
readBlockDevicesFromLaunchConfiguration(bdms, lk) ==
    LET empty == [err |-> FALSE, isNil |-> FALSE, lookups |-> 1,
                  ebs |-> << >>, ephemeral |-> << >>, root |-> Nil]
    IN IF Len(bdms) = 0
       THEN [empty EXCEPT !.isNil = TRUE, !.lookups = 0]
       ELSE IF lk.err
       THEN [empty EXCEPT !.err = TRUE, !.isNil = TRUE]
       ELSE ReadLoop(bdms, 1, Blank(lk), empty)

\* lines 843-869
flattenAutoscalingEbs(in) ==
    IF IsNil(in)
    THEN << >>
    ELSE LET e == Deref(in)
         IN << Put(~IsNil(e.DeleteOnTermination), "delete_on_termination",
                   Deref(e.DeleteOnTermination))
               @@ Put(~IsNil(e.Encrypted), "encrypted", Deref(e.Encrypted))
               @@ Put(~IsNil(e.Iops), "iops", Deref(e.Iops))
               @@ Put(~IsNil(e.SnapshotId), "snapshot_id", Deref(e.SnapshotId))
               @@ Put(~IsNil(e.VolumeSize), "volume_size", Deref(e.VolumeSize))
               @@ Put(~IsNil(e.VolumeType), "volume_type", Deref(e.VolumeType)) >>

\* lines 812-837: the entry of one mapping; lk is the lookup of line 816
FlattenEntry(bdm, lk) ==
    Put(~IsNil(bdm.DeviceName), "device_name", Deref(bdm.DeviceName))
    @@ Put(~IsNil(bdm.DeviceName), "is_root_device", lk.dn = bdm.DeviceName)
    @@ Put(~IsNil(bdm.Ebs), "ebs", flattenAutoscalingEbs(bdm.Ebs))
    @@ Put(~IsNil(bdm.NoDevice), "no_device", Deref(bdm.NoDevice))
    @@ Put(~IsNil(bdm.VirtualName), "virtual_name", Deref(bdm.VirtualName))

\* lines 811-838: the loop; lks[k] is the outcome of the k-th lookup.  A
\* lookup that yields no name makes line 821 dereference a nil pointer.
RECURSIVE FlattenLoop(_, _, _, _, _)
FlattenLoop(in, i, lks, k, acc) ==
    IF i > Len(in)
    THEN [status |-> "ok", out |-> acc, lookups |-> k - 1]
    ELSE IF IsNil(in[i].DeviceName)
    THEN FlattenLoop(in, i + 1, lks, k, Append(acc, FlattenEntry(in[i], LkNone)))
    ELSE IF lks[k].err
    THEN [status |-> "err", out |-> << >>, lookups |-> k]
    ELSE IF IsNil(lks[k].dn)
    THEN [status |-> "panic", out |-> << >>, lookups |-> k]
    ELSE FlattenLoop(in, i + 1, lks, k + 1, Append(acc, FlattenEntry(in[i], lks[k])))

\* lines 805-841
flattenAutoscalingBlockDeviceMappings(in, lks) ==
    IF Len(in) = 0
    THEN [status |-> "ok", out |-> << >>, lookups |-> 0]
    ELSE FlattenLoop(in, 1, lks, 1, << >>)

----------------------------------------------------------------------------
(* Errors of the remote API *)

NoErr == [isErr |-> FALSE, aws |-> FALSE, code |-> "", msg |-> << >>]
AwsErr(code, msg) == [isErr |-> TRUE, aws |-> TRUE, code |-> code, msg |-> msg]
PlainErr == [isErr |-> TRUE, aws |-> FALSE, code |-> "", msg |-> << "connection reset" >>]

\* isAWSErr(err, code, message): an AWS error with that code whose message
\* contains message
isAWSErr(err, code, message) ==
    err.isErr /\ err.aws /\ err.code = code /\ Contains(err.msg, message)

InvalidProfile == << "Invalid IamInstanceProfile" >>
NotAuthorized == << "You are not authorized to perform this operation" >>

CreateErrors ==
    { AwsErr("ValidationError", << "Invalid IamInstanceProfile", ": web-profile" >>),
      AwsErr("ValidationError",
             << "You are not authorized to perform this operation", "." >>),
      AwsErr("ValidationError", << "Launch configuration name already exists" >>),
      AwsErr("AccessDenied", << "You are not authorized to perform this operation" >>),
      AwsErr("InvalidParameter", << "Invalid IamInstanceProfile" >>),
      PlainErr }

DeleteErrors ==
    { AwsErr("InvalidConfiguration.NotFound", << "Launch configuration not found" >>),
      AwsErr("InvalidConfiguration.NotFound", << >>),
      AwsErr("ResourceInUse", << "Launch configuration not found" >>),
      AwsErr("ResourceInUse", << "Cannot delete launch configuration" >>),
      PlainErr }

IsRetryableCreateError_AnyValidation(err) ==
    isAWSErr(err, "ValidationError", << >>)

\* lines 550-558: the classification of a creation error
IsRetryableCreateError(err) ==
    \/ isAWSErr(err, "ValidationError", InvalidProfile)
    \/ isAWSErr(err, "ValidationError", NotAuthorized)

DeleteReturn_NotFoundIsError(err) ==
    IF err.isErr THEN err ELSE NoErr

\* lines 646-653: what Delete returns for the outcome of the deletion request
DeleteReturn(err) ==
    IF err.isErr
    THEN IF isAWSErr(err, "InvalidConfiguration.NotFound", << >>)
         THEN NoErr
         ELSE err
    ELSE NoErr

----------------------------------------------------------------------------
(* Read *)

LookupFailure ==
    [isErr |-> TRUE, aws |-> FALSE, code |-> "", msg |-> << "DescribeImages failed" >>]
Errorf(msg) == [isErr |-> TRUE, aws |-> FALSE, code |-> "", msg |-> msg]

BasicAttrs ==
    { "key_name", "image_id", "instance_type", "name", "iam_instance_profile",
      "ebs_optimized", "spot_price", "enable_monitoring", "security_groups",
      "associate_public_ip_address", "vpc_classic_link_id",
      "vpc_classic_link_security_groups" }

LegacyAttrs == { "ebs_block_device", "ephemeral_block_device", "root_block_device" }

\* lines 658-679
readLCBlockDevices(bdms, lk) ==
    LET ibds == readBlockDevicesFromLaunchConfiguration(bdms, lk)
    IN [err |-> ibds.err, lookups |-> ibds.lookups,
        written |-> IF ibds.err THEN {} ELSE LegacyAttrs]

NotFoundReturn_KeepsId(base) ==
    [base EXCEPT !.ret = "ok", !.err = NoErr]

\* lines 592-596: describe returned no launch configuration
NotFoundReturn(base) ==
    [base EXCEPT !.ret = "ok", !.err = NoErr, !.newId = << >>]

NameDiffers_Unchecked(lc, curId) == FALSE

\* line 599: the first returned launch configuration is not the one asked for
NameDiffers(lc, curId) == lc.name # curId

\* lines 579-636.  curId is d.Id(), resp the describe response, lks the
\* outcomes of the lookups of flattenAutoscalingBlockDeviceMappings and lkR
\* the outcome of the lookup of readBlockDevicesFromLaunchConfiguration.
resourceAwsLaunchConfigurationRead(curId, resp, lks, lkR) ==
    LET base == [ret |-> "error",
                 err |-> Errorf(<< "Error retrieving launch configuration: " >>),
                 newId |-> curId, written |-> {}, lookups |-> 0]
    IN IF resp.err
       THEN base
       ELSE IF Len(resp.lcs) = 0
       THEN NotFoundReturn(base)
       ELSE IF NameDiffers(resp.lcs[1], curId)
       THEN [base EXCEPT !.err = Errorf(<< "Unable to find launch configuration: " >>)]
       ELSE
         LET lc == resp.lcs[1]
             fl == flattenAutoscalingBlockDeviceMappings(lc.bdms, lks)
             rd == readLCBlockDevices(lc.bdms, lkR)
             got == [base EXCEPT !.err = LookupFailure, !.written = BasicAttrs]
         IN IF fl.status = "err"
            THEN [got EXCEPT !.lookups = fl.lookups]
            ELSE IF fl.status = "panic"
            THEN [got EXCEPT !.ret = "panic", !.err = NoErr, !.lookups = fl.lookups]
            ELSE IF rd.err
            THEN [got EXCEPT !.lookups = fl.lookups + rd.lookups,
                             !.written = BasicAttrs \cup {"block_device_mapping"}]
            ELSE [got EXCEPT !.ret = "ok", !.err = NoErr,
                             !.lookups = fl.lookups + rd.lookups,
                             !.written = BasicAttrs \cup {"block_device_mapping"}
                                         \cup rd.written]

----------------------------------------------------------------------------
(* Configurations and responses the lifecycle is explored with *)

EbsEntry(dn, size, type, iops) ==
    [device_name |-> dn, delete_on_termination |-> TRUE, snapshot_id |-> "",
     encrypted |-> FALSE, volume_size |-> size, volume_type |-> type, iops |-> iops]
EphEntry(dn, vn) == [device_name |-> dn, virtual_name |-> vn]
RootEntry(size, type, iops) ==
    [delete_on_termination |-> TRUE, volume_size |-> size, volume_type |-> type,
     iops |-> iops]
BdmEntry(dn, isRoot, ebs) ==
    [device_name |-> dn, virtual_name |-> "", no_device |-> FALSE,
     is_root_device |-> isRoot, ebs |-> ebs]

Config(n, p, bdm, ebs, eph, root) ==
    [name |-> n, name_prefix |-> p, block_device_mapping |-> bdm,
     ebs_block_device |-> ebs, ephemeral_block_device |-> eph,
     root_block_device |-> root]

NoConfig == Config(<< >>, << >>, << >>, << >>, << >>, << >>)

\* name conflicts with name_prefix (lines 48); block_device_mapping conflicts
\* with the three legacy attributes (line 159)
Namings == { << << >>, << >> >>, << << "lc-a" >>, << >> >>, << << >>, << "web-" >> >> }
LegacyBlocks ==
    { << << >>, << >>, << >> >>,
      << << EbsEntry(OtherName, 8, "gp2", 0) >>, << >>, << >> >>,
      << << EbsEntry(OtherName, 0, "io1", 100), EbsEntry(RootName, 8, "", 0) >>,
         << >>, << >> >>,
      << << >>, << EphEntry(ThirdName, "ephemeral0") >>, << RootEntry(10, "gp2", 0) >> >>,
      << << EbsEntry(OtherName, 8, "gp2", 0) >>, << >>, << RootEntry(0, "", 0) >> >> }
LifecycleConfigs ==
    { Config(nm[1], nm[2], << >>, b[1], b[2], b[3]) : nm \in Namings, b \in LegacyBlocks }
    \cup
    { Config(nm[1], nm[2], bdm, << >>, << >>, << >>) :
        nm \in Namings,
        bdm \in { << BdmEntry("", TRUE, << EbsEntry("", 10, "gp2", 0) >>) >>,
                  << BdmEntry(OtherName, FALSE, << >>) >> } }

Suffixes == { "20261101-0001" }

OtherId == << "lc-other" >>

\* a mapping list the provider may hold that no creation request of the
\* explored configurations produces: one mapping without a device name
ForeignBdms == << Mapping(Nil, Nil, Nil) >>

DescribeResponses(curId, req) ==
    { [err |-> TRUE, lcs |-> << >>], [err |-> FALSE, lcs |-> << >>] }
    \cup { [err |-> FALSE, lcs |-> << [name |-> n, bdms |-> b] >>] :
             n \in { curId, OtherId }, b \in { req, << >>, ForeignBdms } }

LookupSeqs(resp) ==
    IF resp.err \/ Len(resp.lcs) = 0
    THEN { << >> }
    ELSE [1..Len(resp.lcs[1].bdms) -> fetchRootDeviceName]

----------------------------------------------------------------------------
(* The callbacks *)

NoResp == [err |-> FALSE, lcs |-> << >>]

Fresh ==
    /\ lastErr' = NoErr
    /\ lastResp' = NoResp
    /\ readId' = << >>
    /\ lookup1' = LkNone
    /\ written' = {}
    /\ nLookup' = 0
    /\ nCreate' = 0
    /\ nDescribe' = 0
    /\ nDelete' = 0

LaunchConfigurationName_AlwaysGenerated(c, sfx) == << "terraform-", sfx >>

\* lines 534-542
LaunchConfigurationName(c, sfx) ==
    IF c.name # << >> THEN c.name
    ELSE IF c.name_prefix # << >> THEN c.name_prefix \o << sfx >>
    ELSE << "terraform-", sfx >>

\* lines 433-435, 472, 515-517, 524: the errors of the legacy branch
LegacyError(status) ==
    IF status = "root_as_ebs"
    THEN Errorf(<< "Root device declared as an 'ebs_block_device'" >>)
    ELSE IF status = "no_root_name"
    THEN Errorf(<< "Expected to find a Root Device name for AMI, but got none" >>)
    ELSE LookupFailure

\* lines 365-545: Create up to the creation request.  With
\* block_device_mapping set, line 423 asserts the *schema.Set returned by
\* GetOk to be a []interface{} and the callback panics.
CreateStart(c, lk1, lk2, sfx) ==
    /\ pc = "idle"
    /\ id = << >>
    /\ op' = "create"
    /\ cfg' = c
    /\ id' = id
    /\ lastErr' = NoErr
    /\ lastResp' = NoResp
    /\ readId' = << >>
    /\ written' = {}
    /\ nCreate' = 0
    /\ nDescribe' = 0
    /\ nDelete' = 0
    /\ IF Len(c.block_device_mapping) > 0
       THEN /\ pc' = "done"
            /\ result' = "panic"
            /\ returned' = NoErr
            /\ nLookup' = 0
            /\ lookup1' = LkNone
            /\ UNCHANGED << lcName, request >>
       ELSE LET lb == LegacyBlockDevices(c, lk1, lk2)
            IN /\ nLookup' = lb.lookups
               /\ lookup1' = lk1
               /\ IF lb.status = "ok"
                  THEN /\ pc' = "creating"
                       /\ result' = "none"
                       /\ returned' = NoErr
                       /\ request' = lb.out
                       /\ lcName' = LaunchConfigurationName(c, sfx)
                  ELSE /\ pc' = "done"
                       /\ result' = "error"
                       /\ returned' = LegacyError(lb.status)
                       /\ UNCHANGED << lcName, request >>
    /\ UNCHANGED << bd, plan >>

\* lines 548-566: one creation request inside resource.Retry(90 s).  After a
\* retryable error the window may have run out (timedOut); Retry then returns
\* the last error, which line 562 wraps.
CreateRequest(err, timedOut) ==
    /\ pc = "creating"
    /\ nCreate' = nCreate + 1
    /\ lastErr' = err
    /\ IF ~err.isErr
       THEN /\ id' = lcName
            /\ pc' = "readback"
            /\ UNCHANGED << result, returned >>
       ELSE IF IsRetryableCreateError(err) /\ ~timedOut
               /\ nCreate + 1 < MaxCreateAttempts
       THEN UNCHANGED << id, pc, result, returned >>
       ELSE /\ pc' = "done"
            /\ result' = "error"
            /\ returned' = Errorf(<< "Error creating launch configuration: " >> \o err.msg)
            /\ id' = id
    /\ UNCHANGED << op, cfg, lcName, request, lastResp, readId, lookup1, written,
                    nLookup, nDescribe, nDelete, bd, plan >>

\* lines 568-576: one read-back inside resource.Retry(30 s); every error of
\* Read is retryable, and Retry returns the last one when the window runs out
CreateReadBack(resp, lkR, timedOut) ==
    /\ pc = "readback"
    /\ \E lks \in LookupSeqs(resp) :
       LET r == resourceAwsLaunchConfigurationRead(id, resp, lks, lkR)
       IN /\ id' = r.newId
          /\ written' = written \cup r.written
          /\ nLookup' = nLookup + r.lookups
          /\ IF r.ret = "ok"
             THEN pc' = "done" /\ result' = "ok" /\ returned' = NoErr
             ELSE IF r.ret = "panic"
             THEN pc' = "done" /\ result' = "panic" /\ returned' = NoErr
             ELSE IF ~timedOut /\ nDescribe + 1 < MaxReadAttempts
             THEN UNCHANGED << pc, result, returned >>
             ELSE pc' = "done" /\ result' = "error" /\ returned' = r.err
    /\ lastResp' = resp
    /\ readId' = id
    /\ nDescribe' = nDescribe + 1
    /\ UNCHANGED << op, cfg, lcName, request, lastErr, lookup1, nCreate, nDelete,
                    bd, plan >>

\* lines 25-27: import by ID hands the given ID to the record
Import(n) ==
    /\ pc = "idle"
    /\ id = << >>
    /\ id' = n
    /\ UNCHANGED << pc, op, result, returned, cfg, lcName, request, lastErr,
                    lastResp, readId, lookup1, written, nLookup, nCreate,
                    nDescribe, nDelete, bd, plan >>

\* lines 579-636: Read invoked by the host
Read(resp, lkR) ==
    /\ pc = "idle"
    /\ id # << >>
    /\ \E lks \in LookupSeqs(resp) :
       LET r == resourceAwsLaunchConfigurationRead(id, resp, lks, lkR)
       IN /\ id' = r.newId
          /\ written' = r.written
          /\ nLookup' = r.lookups
          /\ result' = r.ret
          /\ returned' = r.err
    /\ lastResp' = resp
    /\ readId' = id
    /\ nDescribe' = 1
    /\ nCreate' = 0
    /\ nDelete' = 0
    /\ lastErr' = NoErr
    /\ lookup1' = LkNone
    /\ op' = "read"
    /\ pc' = "done"
    /\ UNCHANGED << cfg, lcName, request, bd, plan >>

\* lines 638-656: Delete invoked by the host
Delete(err) ==
    /\ pc = "idle"
    /\ id # << >>
    /\ op' = "delete"
    /\ pc' = "done"
    /\ nDelete' = 1
    /\ nLookup' = 0
    /\ nCreate' = 0
    /\ nDescribe' = 0
    /\ written' = {}
    /\ lastResp' = NoResp
    /\ readId' = << >>
    /\ lookup1' = LkNone
    /\ lastErr' = err
    /\ returned' = DeleteReturn(err)
    /\ result' = IF DeleteReturn(err).isErr THEN "error" ELSE "ok"
    /\ UNCHANGED << id, cfg, lcName, request, bd, plan >>

\* the host takes the callback's outcome and the callback's bookkeeping ends;
\* after a successful Delete the host drops the record.  A panic ends the
\* provider process.
Return ==
    /\ pc = "done"
    /\ result # "panic"
    /\ pc' = "idle"
    /\ id' = IF op = "delete" /\ result = "ok" THEN << >> ELSE id
    /\ op' = "none"
    /\ result' = "none"
    /\ returned' = NoErr
    /\ Fresh
    /\ cfg' = NoConfig
    /\ lcName' = << >>
    /\ UNCHANGED << request, bd, plan >>

----------------------------------------------------------------------------
(* The lifecycle specification *)

NoGot ==
    [err |-> FALSE, isNil |-> TRUE, lookups |-> 0, ebs |-> << >>, ephemeral |-> << >>,
     root |-> Nil]
NoOut == [status |-> "", out |-> << >>, lookups |-> 0]
Study(stage, c, lk, bdms, sub) ==
    [stage |-> stage, c |-> c, lk |-> lk, status |-> "", bdms |-> bdms, got |-> NoGot,
     sub |-> sub, ebs |-> Nil, flat |-> NoOut, exp |-> NoOut]
NoStudy == Study("none", NoConfig, LkNone, << >>, << >>)

LifecycleInit ==
    /\ pc = "idle"
    /\ op = "none"
    /\ id = << >>
    /\ result = "none"
    /\ returned = NoErr
    /\ cfg = NoConfig
    /\ lcName = << >>
    /\ request = << >>
    /\ lastErr = NoErr
    /\ lastResp = NoResp
    /\ readId = << >>
    /\ lookup1 = LkNone
    /\ written = {}
    /\ nLookup = 0
    /\ nCreate = 0
    /\ nDescribe = 0
    /\ nDelete = 0

Init ==
    /\ LifecycleInit
    /\ bd = NoStudy
    /\ plan = {}

Next ==
    \/ \E c \in LifecycleConfigs, lk1 \in fetchRootDeviceName,
          lk2 \in fetchRootDeviceName, sfx \in Suffixes :
            CreateStart(c, lk1, lk2, sfx)
    \/ \E err \in CreateErrors \cup { NoErr }, timedOut \in BOOLEAN :
            CreateRequest(err, timedOut)
    \/ \E resp \in DescribeResponses(id, request), lkR \in fetchRootDeviceName,
          timedOut \in BOOLEAN :
            CreateReadBack(resp, lkR, timedOut)
    \/ \E n \in { << "lc-a" >>, OtherId } : Import(n)
    \/ \E resp \in DescribeResponses(id, request), lkR \in fetchRootDeviceName :
            Read(resp, lkR)
    \/ \E err \in DeleteErrors \cup { NoErr } : Delete(err)
    \/ Return

Spec == Init /\ [][Next]_vars

----------------------------------------------------------------------------
(* The block-device conversions on their own: a configuration is turned     *)
(* into the mappings of the creation request and these are read back as     *)
(* describe returns them; a describe response is classified; an 'ebs'       *)
(* sub-block is expanded.                                                   *)

\* the distinct-element lists of up to n elements of S (a schema.Set holds
\* equal entries once)
ListsOf(S, n) ==
    { l \in UNION { [1..k -> S] : k \in 0..n } :
        \A i, j \in DOMAIN l : l[i] = l[j] => i = j }

Volumes ==
    { << 0, "", 0 >>, << 8, "gp2", 0 >>, << 0, "io1", 100 >>, << 8, "", -1 >>,
      << -1, "gp2", 0 >> }

StudyConfigs ==
    { Config(<< >>, << >>, << >>, ebs, eph, root) :
        ebs \in ListsOf({ EbsEntry(dn, v[1], v[2], v[3]) :
                            dn \in { RootName, OtherName }, v \in Volumes }, MaxEbs),
        eph \in ListsOf({ EphEntry(dn, "ephemeral0") : dn \in { ThirdName, RootName } },
                        MaxEph),
        root \in { << >> } \cup { << RootEntry(v[1], v[2], v[3]) >> : v \in Volumes } }

ReturnedEbs ==
    [ DeleteOnTermination |-> Ptr(TRUE), SnapshotId |-> Ptr("snap-1"),
      Encrypted |-> Nil, VolumeSize |-> Ptr(8), VolumeType |-> Ptr("gp2"),
      Iops |-> Nil ]

\* the provider returns at most one mapping per device name
ReturnedLists ==
    { l \in ListsOf({ Mapping(dn, vn, ebs) :
                        dn \in { Nil, Ptr(RootName), Ptr(OtherName), Ptr(ThirdName) },
                        vn \in { Nil, Ptr("ephemeral0") },
                        ebs \in { Nil, Ptr(ReturnedEbs) } }, MaxReturned) :
        \A i, j \in DOMAIN l :
            (l[i].DeviceName = l[j].DeviceName /\ ~IsNil(l[i].DeviceName)) => i = j }

SubBlocks ==
    { << >> } \cup
    { << [delete_on_termination |-> TRUE, snapshot_id |-> snap, encrypted |-> FALSE,
          volume_size |-> size, volume_type |-> "gp2", iops |-> iops] >> :
        snap \in { "", "snap-1" }, size \in { -1, 0, 8 }, iops \in { -1, 0, 100 } }

BdmLists ==
    ListsOf({ BdmEntry("", TRUE, << EbsEntry("", 10, "gp2", 0) >>),
              BdmEntry(OtherName, FALSE, << EbsEntry("", 0, "io1", 100) >>),
              BdmEntry(ThirdName, FALSE, << >>) }, MaxBdm)

StudyInit ==
    /\ LifecycleInit
    /\ plan = {}
    /\ \/ \E c \in StudyConfigs, lk \in fetchRootDeviceName :
            bd = Study("config", c, lk, << >>, << >>)
       \/ \E l \in ReturnedLists, lk \in fetchRootDeviceName :
            bd = Study("returned", NoConfig, lk, l, << >>)
       \/ \E sub \in SubBlocks :
            bd = Study("sub_block", NoConfig, LkNone, << >>, sub)
       \/ \E l \in BdmLists, lk \in fetchRootDeviceName :
            bd = Study("bdm_list", Config(<< >>, << >>, l, << >>, << >>, << >>), lk,
                       << >>, << >>)

\* lines 428-532: Create builds the mappings of the creation request
BuildRequest ==
    /\ bd.stage = "config"
    /\ LET lb == LegacyBlockDevices(bd.c, bd.lk, bd.lk)
       IN bd' = [bd EXCEPT !.stage = "built", !.status = lb.status, !.bdms = lb.out]
    /\ UNCHANGED << lifecycleVars, plan >>

\* lines 631, 658-660: Read reads back the mappings of the creation request,
\* returned unchanged by describe
ReadBuilt ==
    /\ bd.stage = "built"
    /\ bd.status = "ok"
    /\ bd' = [bd EXCEPT !.stage = "read_back",
                        !.got = readBlockDevicesFromLaunchConfiguration(bd.bdms, bd.lk)]
    /\ UNCHANGED << lifecycleVars, plan >>

\* lines 631, 658-660: Read classifies the mappings of a describe response
ReadReturned ==
    /\ bd.stage = "returned"
    /\ bd' = [bd EXCEPT !.stage = "classified",
                        !.got = readBlockDevicesFromLaunchConfiguration(bd.bdms, bd.lk)]
    /\ UNCHANGED << lifecycleVars, plan >>

\* line 760: the 'ebs' sub-block of a block_device_mapping entry is expanded
ExpandEbs ==
    /\ bd.stage = "sub_block"
    /\ bd' = [bd EXCEPT !.stage = "expanded", !.ebs = expandAutoscalingEbs(bd.sub)]
    /\ UNCHANGED << lifecycleVars, plan >>

\* line 622: Read flattens the mappings of a describe response; every lookup
\* of the one image has the same outcome
FlattenReturned ==
    /\ bd.stage = "returned"
    /\ bd' = [bd EXCEPT !.stage = "flattened",
                        !.flat = flattenAutoscalingBlockDeviceMappings(
                                    bd.bdms, [i \in 1..Len(bd.bdms) |-> bd.lk])]
    /\ UNCHANGED << lifecycleVars, plan >>

\* line 423: Create expands the block_device_mapping entries
ExpandMappings ==
    /\ bd.stage = "bdm_list"
    /\ bd' = [bd EXCEPT !.stage = "expanded_bdm",
                        !.exp = expandAutoscalingBlockDeviceMappings(
                                   bd.c.block_device_mapping, bd.lk)]
    /\ UNCHANGED << lifecycleVars, plan >>

StudyNext ==
    \/ BuildRequest \/ ReadBuilt \/ ReadReturned \/ ExpandEbs \/ FlattenReturned
    \/ ExpandMappings

SpecBlockDevices == StudyInit /\ [][StudyNext]_vars

----------------------------------------------------------------------------
(* The schema.  An attribute path is the list of names leading to it.       *)

\* lines 42-361: the attributes at the top level
TopLevel ==
    { "name", "name_prefix", "image_id", "instance_type", "iam_instance_profile",
      "key_name", "user_data", "security_groups", "vpc_classic_link_id",
      "vpc_classic_link_security_groups", "associate_public_ip_address",
      "spot_price", "ebs_optimized", "placement_tenancy", "enable_monitoring",
      "block_device_mapping", "ebs_block_device", "ephemeral_block_device",
      "root_block_device" }

\* lines 160-233, 242-292, 299-311, 326-359: the fields of the nested resources
NestedPaths ==
    { << "block_device_mapping", f >> :
        f \in { "device_name", "virtual_name", "no_device", "is_root_device", "ebs" } }
    \cup { << "block_device_mapping", "ebs", f >> :
        f \in { "delete_on_termination", "iops", "snapshot_id", "volume_size",
                "volume_type", "encrypted" } }
    \cup { << "ebs_block_device", f >> :
        f \in { "device_name", "delete_on_termination", "iops", "snapshot_id",
                "volume_size", "volume_type", "encrypted" } }
    \cup { << "ephemeral_block_device", f >> : f \in { "device_name", "virtual_name" } }
    \cup { << "root_block_device", f >> :
        f \in { "delete_on_termination", "iops", "volume_size", "volume_type" } }

SchemaPaths == { << a >> : a \in TopLevel } \cup NestedPaths

NoForceNew_SpotPriceToo ==
    { << "ebs_block_device" >>, << "root_block_device" >>,
      << "ephemeral_block_device", "device_name" >>,
      << "ephemeral_block_device", "virtual_name" >>,
      << "spot_price" >> }

\* lines 237-241, 301-309, 320-325: the schemas declared without ForceNew
NoForceNew ==
    { << "ebs_block_device" >>, << "root_block_device" >>,
      << "ephemeral_block_device", "device_name" >>,
      << "ephemeral_block_device", "virtual_name" >> }

ForceNew(p) == p \in SchemaPaths \ NoForceNew

\* lines 21-27: the resource sets Create, Read, Delete and Importer, no Update
UpdateDefined == FALSE

\* the host plans a change of the attribute at path p; the attribute's diff
\* requires a new resource when the attribute's schema has ForceNew
PlanChange(p) ==
    /\ Cardinality(plan) < MaxPlan
    /\ p \notin { d.path : d \in plan }
    /\ plan' = plan \cup { [path |-> p, requiresNew |-> ForceNew(p)] }
    /\ UNCHANGED << lifecycleVars, bd >>

SchemaNext == \E p \in SchemaPaths : PlanChange(p)

SpecSchema == Init /\ [][SchemaNext]_vars

----------------------------------------------------------------------------
(* Properties of the lifecycle *)

\* C1: Delete issues exactly one deletion request; it returns success when
\* the request succeeds or fails with 'InvalidConfiguration.NotFound', and
\* returns the request's error when it fails with any other error.
C1_DeleteOutcome ==
    (op = "delete" /\ pc = "done") =>
        /\ nDelete = 1
        /\ IF ~lastErr.isErr
              \/ (lastErr.aws /\ lastErr.code = "InvalidConfiguration.NotFound")
           THEN result = "ok" /\ returned = NoErr
           ELSE result = "error" /\ returned = lastErr

C1_Witness ==
    /\ op = "delete" /\ pc = "done" /\ nDelete = 1
    /\ lastErr.isErr /\ lastErr.code = "InvalidConfiguration.NotFound"
    /\ result = "ok"

\* C2: a Read whose describe call succeeds with no launch configuration sets
\* the ID to empty, returns no error and writes no attribute.
C2_ReadNotFound ==
    [][ ( /\ pc = "readback" \/ (pc = "idle" /\ op' = "read")
          /\ nDescribe' >= 1
          /\ ~lastResp'.err
          /\ Len(lastResp'.lcs) = 0 )
        => ( id' = << >> /\ result' = "ok" /\ returned' = NoErr
             /\ written' = written ) ]_vars

C2_Witness ==
    /\ op = "read" /\ pc = "done" /\ nDescribe = 1
    /\ ~lastResp.err /\ Len(lastResp.lcs) = 0
    /\ readId # << >> /\ id = << >> /\ result = "ok" /\ written = {}

\* C3: Create issues a further creation request only after a failure that is
\* a ValidationError whose message contains 'Invalid IamInstanceProfile' or
\* 'You are not authorized to perform this operation'; after any other
\* creation error it has ended with an error, and after a successful
\* creation request it issues no further one.
C3_CreateRetry ==
    [][ LET Transient(e) ==
                /\ e.isErr /\ e.aws /\ e.code = "ValidationError"
                /\ \E i \in DOMAIN e.msg :
                      e.msg[i] \in { "Invalid IamInstanceProfile",
                                     "You are not authorized to perform this operation" }
        IN /\ (op = "create" /\ nCreate >= 1 /\ nCreate' > nCreate)
                  => Transient(lastErr)
           /\ (op' = "create" /\ nCreate' >= 1 /\ lastErr'.isErr
               /\ ~Transient(lastErr'))
                  => (pc' = "done" /\ result' = "error" /\ returned'.isErr)
           /\ (op = "create" /\ nCreate >= 1 /\ ~lastErr.isErr)
                  => nCreate' <= nCreate ]_vars

C3_Witness ==
    /\ op = "create" /\ pc = "done" /\ nCreate = 2
    /\ lastErr.code = "ValidationError"
    /\ lastErr.msg = << "Launch configuration name already exists" >>
    /\ result = "error"

\* C4 as stated: whenever Read finds the first returned launch configuration
\* named differently from the ID, the operation fails and describe is not
\* repeated, under the host's Read and under Create's read-back alike.
C4_MismatchNeverRetried ==
    [][ LET Mismatch(n, resp, asked) ==
                /\ n >= 1 /\ ~resp.err /\ Len(resp.lcs) > 0
                /\ resp.lcs[1].name # asked
        IN /\ Mismatch(nDescribe', lastResp', readId')
                  => (pc' = "done" /\ result' = "error")
           /\ Mismatch(nDescribe, lastResp, readId)
                  => nDescribe' <= nDescribe ]_vars

\* C4 amended: under the host's Read the mismatch makes Read fail after its
\* single describe call, with no attribute written and the ID kept; under
\* Create's read-back it is a retryable failure, so Create either reads again
\* or has ended with an error.
C4_MismatchHostRead ==
    LET Mismatch ==
            /\ nDescribe >= 1 /\ ~lastResp.err /\ Len(lastResp.lcs) > 0
            /\ lastResp.lcs[1].name # readId
    IN /\ (op = "read" /\ Mismatch) =>
              /\ pc = "done" /\ result = "error" /\ returned.isErr
              /\ nDescribe = 1 /\ written = {} /\ id = readId
       /\ (op = "create" /\ Mismatch) =>
              \/ pc = "readback"
              \/ pc = "done" /\ result = "error" /\ returned.isErr

C4_Witness ==
    /\ op = "read" /\ pc = "done" /\ nDescribe = 1
    /\ Len(lastResp.lcs) > 0 /\ lastResp.lcs[1].name # readId
    /\ result = "error"

\* C5 as stated: on the legacy path an ebs_block_device entry named like the
\* image's root device makes Create return an error with no remote call of
\* any kind issued.
C5_RejectedBeforeAnyCall ==
    ( /\ op = "create"
      /\ Len(cfg.block_device_mapping) = 0
      /\ nLookup >= 1 /\ ~lookup1.err
      /\ \E i \in DOMAIN cfg.ebs_block_device :
            Ptr(cfg.ebs_block_device[i].device_name) = lookup1.dn )
    => ( pc = "done" /\ result = "error"
         /\ nLookup = 0 /\ nCreate = 0 /\ nDescribe = 0 )

\* C5 amended: the rejection comes after exactly one remote call, the image
\* lookup that yields the root-device name; no creation request and no
\* describe call is issued.
C5_RejectedAfterLookupOnly ==
    ( /\ op = "create"
      /\ Len(cfg.block_device_mapping) = 0
      /\ nLookup >= 1 /\ ~lookup1.err
      /\ \E i \in DOMAIN cfg.ebs_block_device :
            Ptr(cfg.ebs_block_device[i].device_name) = lookup1.dn )
    => ( pc = "done" /\ result = "error" /\ returned.isErr
         /\ nLookup = 1 /\ nCreate = 0 /\ nDescribe = 0 /\ nDelete = 0
         /\ id = << >> )

C5_Witness ==
    /\ op = "create" /\ pc = "done" /\ result = "error"
    /\ lookup1 = LkName(RootName)
    /\ Len(cfg.ebs_block_device) = 2
    /\ cfg.ebs_block_device[2].device_name = RootName
    /\ nLookup = 1

\* C6: after a successful creation request Create keeps reading until the
\* created configuration is returned, so a Create that finishes successfully
\* has the ID equal to the name sent in the creation request.
C6_ReadBackUntilFound ==
    (op = "create" /\ pc = "done" /\ result = "ok") =>
        /\ id = lcName
        /\ Len(lastResp.lcs) > 0

----------------------------------------------------------------------------
(* Properties of the block-device conversions *)

\* C8: readBlockDevicesFromLaunchConfiguration puts a mapping named like the
\* image's root device into 'root' and into neither list; every other
\* mapping goes into exactly one list, 'ephemeral' exactly when it has a
\* virtual name, and is never the 'root' result.
C8_Classification ==
    (bd.stage = "classified" /\ ~bd.lk.err /\ Len(bd.bdms) > 0) =>
        LET IsRoot(m) == ~IsNil(m.DeviceName) /\ m.DeviceName = bd.lk.dn
            Names(l) == { l[j].device_name :
                            j \in { k \in DOMAIN l : "device_name" \in DOMAIN l[k] } }
            Eph == { i \in DOMAIN bd.bdms :
                        ~IsRoot(bd.bdms[i]) /\ ~IsNil(bd.bdms[i].VirtualName) }
            Ebs == { i \in DOMAIN bd.bdms :
                        ~IsRoot(bd.bdms[i]) /\ IsNil(bd.bdms[i].VirtualName) }
        IN /\ ~bd.got.err /\ ~bd.got.isNil
           /\ \A i \in DOMAIN bd.bdms :
                IsRoot(bd.bdms[i]) =>
                    /\ ~IsNil(bd.got.root)
                    /\ ("volume_size" \in DOMAIN bd.got.root[1]) = ~IsNil(bd.bdms[i].Ebs)
                    /\ bd.bdms[i].DeviceName[1] \notin
                          Names(bd.got.ebs) \cup Names(bd.got.ephemeral)
           /\ ~IsNil(bd.got.root) => \E i \in DOMAIN bd.bdms : IsRoot(bd.bdms[i])
           /\ Len(bd.got.ephemeral) = Cardinality(Eph)
           /\ Len(bd.got.ebs) = Cardinality(Ebs)
           /\ \A i \in Eph :
                /\ \E j \in DOMAIN bd.got.ephemeral :
                      bd.got.ephemeral[j].virtual_name = bd.bdms[i].VirtualName[1]
                /\ ~IsNil(bd.bdms[i].DeviceName) =>
                      /\ bd.bdms[i].DeviceName[1] \in Names(bd.got.ephemeral)
                      /\ bd.bdms[i].DeviceName[1] \notin Names(bd.got.ebs)
           /\ \A i \in Ebs :
                ~IsNil(bd.bdms[i].DeviceName) =>
                      /\ bd.bdms[i].DeviceName[1] \in Names(bd.got.ebs)
                      /\ bd.bdms[i].DeviceName[1] \notin Names(bd.got.ephemeral)

C8_Witness ==
    /\ bd.stage = "classified" /\ bd.lk = LkName(RootName)
    /\ Len(bd.bdms) = 2
    /\ bd.bdms[1].DeviceName = Ptr(RootName) /\ ~IsNil(bd.bdms[1].VirtualName)
    /\ ~IsNil(bd.got.root)
    /\ Len(bd.got.ebs) = 1

\* C9: in every Ebs descriptor built for the creation request, from
\* ebs_block_device, from root_block_device and by expandAutoscalingEbs,
\* volume_size is present exactly when the configured value is not 0 and iops
\* exactly when it is greater than 0; neither is ever sent as 0.
C9_ZeroOmitted ==
    LET Right(e, b) ==
            /\ e.VolumeSize = (IF b.volume_size # 0 THEN << b.volume_size >> ELSE << >>)
            /\ e.Iops = (IF b.iops > 0 THEN << b.iops >> ELSE << >>)
            /\ e.VolumeSize # << 0 >> /\ e.Iops # << 0 >>
    IN /\ (bd.stage = "built" /\ bd.status = "ok") =>
            /\ \A i \in DOMAIN bd.c.ebs_block_device :
                  /\ ~IsNil(bd.bdms[i].Ebs)
                  /\ Right(bd.bdms[i].Ebs[1], bd.c.ebs_block_device[i])
            /\ Len(bd.c.root_block_device) = 1 =>
                  /\ ~IsNil(bd.bdms[Len(bd.bdms)].Ebs)
                  /\ Right(bd.bdms[Len(bd.bdms)].Ebs[1], bd.c.root_block_device[1])
       /\ (bd.stage = "expanded" /\ Len(bd.sub) = 1) =>
            /\ ~IsNil(bd.ebs)
            /\ Right(bd.ebs[1], bd.sub[1])

C9_Witness ==
    /\ bd.stage = "built" /\ bd.status = "ok"
    /\ Len(bd.c.ebs_block_device) = 2
    /\ bd.c.ebs_block_device[1].volume_size = 0
    /\ bd.c.ebs_block_device[1].iops = 100
    /\ bd.c.ebs_block_device[2].iops = 0
    /\ IsNil(bd.bdms[1].Ebs[1].VolumeSize)
    /\ IsNil(bd.bdms[2].Ebs[1].Iops)

\* what the record holds for each configured legacy entry after the read-back
\* equals what was configured (an absent key is stored as the zero value):
\* device name, volume size, volume type, iops, and the root / non-root class
RoundTripPreserved ==
    LET Stored(m, k, zero) == IF k \in DOMAIN m THEN m[k] ELSE zero
        Same(m, b) ==
            /\ Stored(m, "volume_size", 0) = b.volume_size
            /\ Stored(m, "volume_type", "") = b.volume_type
            /\ Stored(m, "iops", 0) = b.iops
    IN /\ Len(bd.got.ebs) = Len(bd.c.ebs_block_device)
       /\ \A i \in DOMAIN bd.c.ebs_block_device :
            /\ i \in DOMAIN bd.got.ebs
            /\ Stored(bd.got.ebs[i], "device_name", "") = bd.c.ebs_block_device[i].device_name
            /\ Same(bd.got.ebs[i], bd.c.ebs_block_device[i])
       /\ Len(bd.got.ephemeral) = Len(bd.c.ephemeral_block_device)
       /\ \A i \in DOMAIN bd.c.ephemeral_block_device :
            /\ i \in DOMAIN bd.got.ephemeral
            /\ Stored(bd.got.ephemeral[i], "device_name", "")
                  = bd.c.ephemeral_block_device[i].device_name
       /\ IsNil(bd.got.root) = (Len(bd.c.root_block_device) = 0)
       /\ Len(bd.c.root_block_device) = 1 =>
            /\ ~IsNil(bd.got.root)
            /\ Same(bd.got.root[1], bd.c.root_block_device[1])

\* C10 as stated: every legacy configuration with no ebs_block_device named
\* like the root device survives the round trip through the creation request
\* and readBlockDevicesFromLaunchConfiguration.
C10_RoundTripAll ==
    bd.stage = "read_back" => RoundTripPreserved

\* C10 amended: the round trip preserves the configuration when, in addition,
\* no ephemeral_block_device is named like the root device and no iops value
\* is negative.
C10_RoundTrip ==
    ( /\ bd.stage = "read_back"
      /\ \A i \in DOMAIN bd.c.ephemeral_block_device :
            Ptr(bd.c.ephemeral_block_device[i].device_name) # bd.lk.dn
      /\ \A i \in DOMAIN bd.c.ebs_block_device : bd.c.ebs_block_device[i].iops >= 0
      /\ \A i \in DOMAIN bd.c.root_block_device : bd.c.root_block_device[i].iops >= 0 )
    => RoundTripPreserved

C10_Witness ==
    /\ bd.stage = "read_back"
    /\ Len(bd.c.ebs_block_device) = 2
    /\ bd.c.ebs_block_device[1].iops = 100
    /\ bd.c.ebs_block_device[2].volume_size = 8
    /\ Len(bd.c.ephemeral_block_device) = 1
    /\ bd.c.ephemeral_block_device[1].device_name = ThirdName
    /\ Len(bd.c.root_block_device) = 1
    /\ bd.c.root_block_device[1].iops = 0
    /\ ~IsNil(bd.got.root)
    /\ Len(bd.got.ebs) = 2 /\ Len(bd.got.ephemeral) = 1

----------------------------------------------------------------------------
(* Properties of the schema *)

\* C7 as stated: every top-level attribute and every nested field of the
\* block-device attributes is flagged to force replacement, and the resource
\* defines no update operation.
C7_AllFlagged ==
    /\ ~UpdateDefined
    /\ \A d \in plan : d.requiresNew

\* C7 amended: ebs_block_device, root_block_device and the two fields of
\* ephemeral_block_device carry no flag; every other attribute and nested
\* field is flagged, each unflagged block has all its fields flagged, each
\* unflagged field has its block flagged, and there is no update operation.
C7_FlaggedOrCovered ==
    /\ ~UpdateDefined
    /\ \A d \in plan :
         \/ d.requiresNew
         \/ /\ d.path \in { << "ebs_block_device" >>, << "root_block_device" >> }
            /\ \A q \in SchemaPaths :
                  (Len(q) = 2 /\ q[1] = d.path[1]) => ForceNew(q)
         \/ /\ d.path \in { << "ephemeral_block_device", "device_name" >>,
                            << "ephemeral_block_device", "virtual_name" >> }
            /\ ForceNew(<< d.path[1] >>)

C7_Witness ==
    /\ [path |-> << "ebs_block_device" >>, requiresNew |-> FALSE] \in plan
    /\ [path |-> << "spot_price" >>, requiresNew |-> TRUE] \in plan

----------------------------------------------------------------------------
(* Properties of the consolidated block_device_mapping conversions *)

\* C11: for every list of returned mappings and every outcome of the image
\* lookup that is not an error, the lookup finding no root-device name
\* included, flattenAutoscalingBlockDeviceMappings completes with one entry
\* per mapping, and is_root_device is true exactly for the mappings named
\* like the image's root device and false for every other named mapping.
C11_FlattenCompletes ==
    (bd.stage = "flattened" /\ ~bd.lk.err) =>
        /\ bd.flat.status = "ok"
        /\ Len(bd.flat.out) = Len(bd.bdms)
        /\ \A i \in DOMAIN bd.bdms :
              bd.bdms[i].DeviceName # << >> =>
                  /\ i \in DOMAIN bd.flat.out
                  /\ "is_root_device" \in DOMAIN bd.flat.out[i]
                  /\ bd.flat.out[i].is_root_device
                        = (bd.bdms[i].DeviceName = bd.lk.dn)

\* C12: for every non-empty list of block_device_mapping entries
\* expandAutoscalingBlockDeviceMappings returns one outbound mapping per
\* entry, and the mapping of an entry with is_root_device true carries the
\* root-device name that the image lookup yields.
C12_ExpandReturnsMappings ==
    ( /\ bd.stage = "expanded_bdm"
      /\ Len(bd.c.block_device_mapping) > 0
      /\ ~bd.lk.err )
    => /\ bd.exp.status = "ok"
       /\ Len(bd.exp.out) = Len(bd.c.block_device_mapping)
       /\ \A i \in DOMAIN bd.c.block_device_mapping :
             bd.c.block_device_mapping[i].is_root_device =>
                 /\ i \in DOMAIN bd.exp.out
                 /\ bd.exp.out[i] # << >>
                 /\ bd.exp.out[i][1].DeviceName = bd.lk.dn

----------------------------------------------------------------------------
(* Properties of the resource ID under Create *)

\* C13: Create assigns the ID only after a creation request has succeeded,
\* and then to the name sent in that request: the configured name if set,
\* otherwise name_prefix followed by a generated suffix, otherwise a generated
\* ID.  While no creation request has succeeded, and whenever Create returns
\* an error before or from the creation step, the ID is unset and no describe
\* call has been made.
C13_IdAfterCreation ==
    [][ /\ (op' = "create" /\ id' # << >> /\ id' # id) =>
              /\ nCreate' >= 1 /\ ~lastErr'.isErr
              /\ id' = lcName'
              /\ IF cfg'.name # << >>
                 THEN id' = cfg'.name
                 ELSE IF cfg'.name_prefix # << >>
                 THEN /\ Len(id') = Len(cfg'.name_prefix) + 1
                      /\ SubSeq(id', 1, Len(cfg'.name_prefix)) = cfg'.name_prefix
                      /\ id'[Len(id')] \in Suffixes
                 ELSE /\ Len(id') = 2
                      /\ id'[2] \in Suffixes
        /\ (op' = "create" /\ pc' = "creating") =>
              (id' = << >> /\ nDescribe' = 0)
        /\ (op' = "create" /\ pc' = "done" /\ result' = "error"
            /\ (nCreate' = 0 \/ lastErr'.isErr)) =>
              (id' = << >> /\ nDescribe' = 0) ]_vars

C13_Witness ==
    /\ op = "create" /\ pc = "readback" /\ nCreate = 2 /\ nDescribe = 0
    /\ cfg.name_prefix = << "web-" >>
    /\ id = << "web-", "20261101-0001" >>

====
